---- MODULE Spec2Model ----
(***************************************************************************)
(* A model of the file browser of open_agb_firm                            *)
(* (source/arm11/filebrowser.c): the directory list container, the         *)
(* directory scanner, the path buffer and the navigation loop.             *)
(*                                                                         *)
(* C strings are modelled as TLA+ strings without their terminator; a      *)
(* character is a string of length 1.  Heap blocks are the elements of     *)
(* the sequence mem; a pointer is an index into it and NULL is 0.          *)
(***************************************************************************)
EXTENDS Integers, Sequences, FiniteSets, TLC

(***************************************************************************)
(* Program constants.                                                      *)
(***************************************************************************)
DIR_READ_BLOCKS == 10
SCREEN_ROWS == 24
DLIST_GROW_SIZE == 128

ENTRY_FILE == 0
ENTRY_DIRECTORY == 1

NULL == 0

RES_OK == "RES_OK"
RES_OUT_OF_MEM == "RES_OUT_OF_MEM"
RES_INVALID_ARG == "RES_INVALID_ARG"
RES_FR_NO_PATH == "RES_FR_NO_PATH"
RES_FR_DISK_ERR == "RES_FR_DISK_ERR"

\* 32 bit integers are held as their two's complement value, so that the
\* u32 0xFFFFFFFF is -1.  The model's sums and differences stay far from the
\* ends of the range and need no reduction; the casts of the code matter in
\* its comparisons, where a u32 with the top bit set is above every u32
\* without it.
ULt(a, b) == IF (a < 0) = (b < 0) THEN a < b ELSE b < 0
UGt(a, b) == ULt(b, a)
UGe(a, b) == ~ULt(a, b)

(***************************************************************************)
(* Bounds of the model.                                                    *)
(***************************************************************************)
\* scanDir calls in one browseFiles session (every rescan allocates).
MaxScans == 3
\* Path components below the volume root in the path buffer harness.
MaxDepth == 2
\* Entries of an enumerated directory in the scanner harness.
MaxDirLen == 3
\* List sizes 0 .. MaxNum of the navigation harness.
MaxNum == 27

(***************************************************************************)
(* Strings.                                                                *)
(***************************************************************************)
CharAt(s, i) == SubSeq(s, i, i)

\* The characters the model's names are made of, in ascending byte order
\* (ASCII): Byte is order-isomorphic to the byte value of the character.
ByteOrder == "./:AZ_abcdegmorstxz"
Byte(c) == CHOOSE i \in 1..Len(ByteOrder) : CharAt(ByteOrder, i) = c

\* strlen(s + from - 1): the suffix of s starting at position from (1-based).
Suffix(s, from) == SubSeq(s, from, Len(s))

\* strcmp of two strings: negative, zero or positive as
\* a is below, equal to or above b in byte-wise order.
RECURSIVE strcmp(_, _)
strcmp(a, b) ==
    IF a = "" /\ b = "" THEN 0
    ELSE IF a = "" THEN -1
    ELSE IF b = "" THEN 1
    ELSE IF Head(a) # Head(b) THEN Byte(Head(a)) - Byte(Head(b))
    ELSE strcmp(Tail(a), Tail(b))

(***************************************************************************)
(* The heap.  A block is [k, fr, sz, d]: its kind, the number of times it  *)
(* has been freed (0: allocated), its size and its content.  Allocation    *)
(* appends a block, so that a pointer is never reused and every free of a  *)
(* block is counted against that block.                                    *)
(***************************************************************************)
Block(k, sz, d) == [k |-> k, fr |-> 0, sz |-> sz, d |-> d]

\* The pointer returned by the next successful allocation.
NewPtr(m) == Len(m) + 1

\* fcramFree / free: freeing NULL does nothing.
FreeBlock(m, p) == IF p = NULL THEN m ELSE [m EXCEPT ![p].fr = @ + 1]

\* The value of a size field that was never written.
Uninit == -1

(***************************************************************************)
(* DirList: the content of a list block is [capacity, size, entries];      *)
(* entries is the written prefix of the entries array, each entry a        *)
(* [type, name] with name a pointer to a name block.                       *)
(***************************************************************************)
\* dlistNew, the block of a successful call.
dlistNew ==
    Block("list", DLIST_GROW_SIZE,
          [capacity |-> DLIST_GROW_SIZE, size |-> 0, entries |-> <<>>])

\* dlistFree's loop: fcramFree(dlist->entries[i].name) for i < n.  The names
\* of a list are distinct blocks, so each is freed once by the loop.
FreeNames(m, entries, n) ==
    LET names == {entries[i].name : i \in 1..n}
    IN  [b \in DOMAIN m |-> IF b \in names THEN [m[b] EXCEPT !.fr = @ + 1] ELSE m[b]]

\* dlistFree(dlist) when dlist->size reads as n: the names, then the block.
dlistFree(m, p, n) == FreeBlock(FreeNames(m, m[p].d.entries, n), p)

\* The blocks dlistFree(dlist) frees when dlist->size reads as n.
FreedBy(m, p, n) == {m[p].d.entries[i].name : i \in 1..n} \cup {p}

\* dlistGrow when the allocation succeeds: the new block (its size field is
\* not written) and the memory after the old block is freed.
dlistGrowBlock(old) ==
    Block("list", old.capacity + DLIST_GROW_SIZE,
          [capacity |-> old.capacity + DLIST_GROW_SIZE,
           size |-> Uninit,
           entries |-> SubSeq(old.entries, 1, old.size)])

dlistGrow(m, p) == FreeBlock(Append(m, dlistGrowBlock(m[p].d)), p)

\* dlistGrow when the allocation fails: the old block is freed, NULL returned.
dlistGrowFail(m, p) == FreeBlock(m, p)

(***************************************************************************)
(* Sorter: dlistCompare and qsort.                                         *)
(***************************************************************************)
\* dlistCompare with the types compared the other way round.
dlistCompare_FilesFirst(m, a, b) ==
    IF a.type # b.type THEN a.type - b.type
    ELSE strcmp(m[a.name].d, m[b.name].d)

\* dlistCompare on two entries; m gives the names their pointers refer to.
dlistCompare(m, a, b) ==
    IF a.type # b.type THEN b.type - a.type
    ELSE strcmp(m[a.name].d, m[b.name].d)

\* qsort(entries, n, sizeof(DirEntry), dlistCompare): the first n entries in
\* an order in which no entry compares above a later one.  The place of an
\* entry is the number of entries that compare below it; entries that
\* compare equal, whose order qsort leaves open, keep their order.
qsort(m, entries, n) ==
    LET below(i) == {j \in 1..n :
                        LET c == dlistCompare(m, entries[j], entries[i])
                        IN  c < 0 \/ (c = 0 /\ j < i)}
        place == {<<Cardinality(below(i)) + 1, i>> : i \in 1..n}
        at(k) == CHOOSE i \in 1..n : <<k, i>> \in place
    IN  [k \in 1..n |-> entries[at(k)]]

(***************************************************************************)
(* DirectoryScanner: the admission rule of scanDir.                        *)
(***************************************************************************)
\* The type scanDir gives a FILINFO.
EntType(fi) == IF fi.isDir THEN ENTRY_DIRECTORY ELSE ENTRY_FILE

\* The skip test with a name as long as the filter let through.
FileSkipped_EqualLength(fname, filter) ==
    \/ Len(fname) < Len(filter)
    \/ strcmp(filter, Suffix(fname, Len(fname) - Len(filter) + 1)) # 0
    \/ CharAt(fname, 1) = "."

\* TRUE when scanDir skips the file named fname under the given filter.
FileSkipped(fname, filter) ==
    \/ Len(fname) <= Len(filter)
    \/ strcmp(filter, Suffix(fname, Len(fname) - Len(filter) + 1)) # 0
    \/ CharAt(fname, 1) = "."

\* TRUE when scanDir adds the FILINFO to the list.
Admitted(fi, filter) ==
    EntType(fi) # ENTRY_FILE \/ ~FileSkipped(fi.fname, filter)

(***************************************************************************)
(* PathBuilder: pathAppend and the truncation of the Back key.             *)
(***************************************************************************)
\* bool addSlash of pathAppend.
addSlash(src) == CharAt(src, Len(src)) # "/"

\* newLen without the byte of the terminator.
newLen_NoTerminator(src, dst) == Len(src) + Len(dst) + (IF addSlash(src) THEN 1 ELSE 0)

\* size_t newLen of pathAppend.
newLen(src, dst) == Len(src) + Len(dst) + (IF addSlash(src) THEN 2 ELSE 1)

\* TRUE when pathAppend reallocates the buffer.
NeedsRealloc(src, srcSize, dst) == newLen(src, dst) >= srcSize

\* pathAppend without the separator.
pathAppend_NoSeparator(src, dst) == src \o dst

\* The string pathAppend leaves in the buffer.
pathAppend(src, dst) == IF addSlash(src) THEN src \o "/" \o dst ELSE src \o dst

\* The position of the last '/' of s, 0 when it has none.
LastSlash(s) ==
    LET at == {i \in 1..Len(s) : CharAt(s, i) = "/"}
    IN  IF at = {} THEN 0 ELSE CHOOSE i \in at : \A j \in at : j <= i

\* TRUE when the backward scan of the Back key stays inside the buffer:
\* a '/' is found, and the character before it exists.
TruncateDefined(s) == LastSlash(s) > 1

\* The truncation that keeps the separator it finds.
truncateToParent_KeepSeparator(s) == SubSeq(s, 1, LastSlash(s))

\* The truncation without the test for the volume root.
truncateToParent_PastRoot(s) == SubSeq(s, 1, LastSlash(s) - 1)

\* The string the Back key leaves in the buffer.
truncateToParent(s) ==
    LET k == LastSlash(s)
    IN  IF CharAt(s, k - 1) = ":" THEN SubSeq(s, 1, k) ELSE SubSeq(s, 1, k - 1)

(***************************************************************************)
(* NavigationController: the cursor and window update of one poll.         *)
(***************************************************************************)
KEY_A == "KEY_A"
KEY_B == "KEY_B"
KEY_DRIGHT == "KEY_DRIGHT"
KEY_DLEFT == "KEY_DLEFT"
KEY_DUP == "KEY_DUP"
KEY_DDOWN == "KEY_DDOWN"

NavKeys == {KEY_DRIGHT, KEY_DLEFT, KEY_DUP, KEY_DDOWN}
Keys == NavKeys \cup {KEY_A, KEY_B}

\* if(kDown & KEY_DRIGHT): the page forward of the cursor.
PageForward(c, num) ==
    LET c1 == c + SCREEN_ROWS
    IN  IF UGt(c1, num) THEN num - 1 ELSE c1

\* if(kDown & KEY_DLEFT): the page backward of the cursor.
PageBackward(c) ==
    LET c1 == c - SCREEN_ROWS
    IN  IF c1 < -1 THEN 0 ELSE c1

\* The cursor after the keys of kDown are applied, in the code's order.
MoveCursor(c, num, kDown) ==
    IF num = 0 THEN c
    ELSE LET c1 == IF KEY_DRIGHT \in kDown THEN PageForward(c, num) ELSE c
             c2 == IF KEY_DLEFT \in kDown THEN PageBackward(c1) ELSE c1
             c3 == IF KEY_DUP \in kDown THEN c2 - 1 ELSE c2
         IN  IF KEY_DDOWN \in kDown THEN c3 + 1 ELSE c3

\* The wrap tests without the wrap to the start of the list.
WrapCursor_NoWrapToStart(c, num) == IF c < 0 THEN num - 1 ELSE c

\* The wrap tests with a cursor below 0 stopped at the start of the list.
WrapCursor_StopAtStart(c, num) ==
    LET c1 == IF c < 0 THEN 0 ELSE c
    IN  IF UGt(c1, num - 1) THEN 0 ELSE c1

\* The two wrap tests that follow the keys.
WrapCursor(c, num) ==
    LET c1 == IF c < 0 THEN num - 1 ELSE c
    IN  IF UGt(c1, num - 1) THEN 0 ELSE c1

\* The first scroll test: the cursor is above the window.
ScrollUp(c, w) == ULt(c, w)

\* The second scroll test, one row late.
ScrollDown_Late(c, w) == UGt(c, w + SCREEN_ROWS)

\* The second scroll test: the cursor is below the window that starts at w.
ScrollDown(c, w) == UGe(c, w + SCREEN_ROWS)

\* The scroll recompute with the window moved one row short.
ScrollWindow_OneShort(c, w) ==
    LET w1 == IF ULt(c, w) THEN c ELSE w
        w2 == IF UGe(c, w1 + SCREEN_ROWS) THEN c - SCREEN_ROWS ELSE w1
    IN  [windowPos |-> w2,
         redraws |-> (IF ULt(c, w) THEN 1 ELSE 0)
                     + (IF UGe(c, w1 + SCREEN_ROWS) THEN 1 ELSE 0)]

\* The window start after the scroll recompute and the number of
\* showDirList calls the recompute makes.
ScrollWindow(c, w) ==
    LET w1 == IF ScrollUp(c, w) THEN c ELSE w
        w2 == IF ScrollDown(c, w1) THEN c - (SCREEN_ROWS - 1) ELSE w1
    IN  [windowPos |-> w2,
         redraws |-> (IF ScrollUp(c, w) THEN 1 ELSE 0)
                     + (IF ScrollDown(c, w1) THEN 1 ELSE 0)]

\* The cursor, the window and the redraws of one poll with keys kDown on a
\* list of num entries.
NavStep(c, w, num, kDown) ==
    LET c1 == WrapCursor(MoveCursor(c, num, kDown), num)
        sw == ScrollWindow(c1, w)
    IN  [cursorPos |-> c1, windowPos |-> sw.windowPos, redraws |-> sw.redraws]

(***************************************************************************)
(* The directory-read service: disk maps a path to the FILINFOs fReadDir   *)
(* yields for it, in the order it yields them.                             *)
(***************************************************************************)
FileInfo(fname, isDir) == [fname |-> fname, isDir |-> isDir]

\* The filter browseFiles passes to scanDir.
GbaFilter == ".gba"

\* A directory of n distinct .gba files, yielded in descending name order.
BigLetters == "abcdegmorstx"
BigName(i) ==
    CharAt(BigLetters, 1 + (i \div Len(BigLetters)))
        \o CharAt(BigLetters, 1 + (i % Len(BigLetters))) \o GbaFilter
BigFiles(n) == [i \in 1..n |-> FileInfo(BigName(n - i), FALSE)]

\* More entries than one page shows, so that the window scrolls.
RomsCount == SCREEN_ROWS + 1
RomsDir ==
    <<FileInfo(".a.gba", FALSE), FileInfo("game.gba", FALSE)>> \o BigFiles(RomsCount)
        \o <<FileInfo("d", TRUE), FileInfo("a.txt", FALSE)>>

RootDir ==
    <<FileInfo("z.gba", FALSE), FileInfo("roms", TRUE), FileInfo(".x.gba", FALSE),
      FileInfo("a.txt", FALSE), FileInfo("Z.gba", FALSE), FileInfo("e", TRUE),
      FileInfo("gba", FALSE), FileInfo("a.gba", FALSE)>>

VolumeRoot == "sdmc:/"

SessionDisk ==
    [p \in {VolumeRoot, "sdmc:/roms", "sdmc:/e", "sdmc:/roms/d"} |->
        CASE p = VolumeRoot -> RootDir
          [] p = "sdmc:/roms" -> RomsDir
          [] p = "sdmc:/e" -> <<>>
          [] OTHER -> <<FileInfo("a.gba", FALSE)>>]

\* The base paths of a session: the volume root, or a directory saved by an
\* earlier session, which may since have been removed.
BasePaths == {VolumeRoot, "sdmc:/roms", "sdmc:/e", "sdmc:/gone"}

(***************************************************************************)
(* The state.                                                              *)
(***************************************************************************)
VARIABLES
    disk,            \* the directory-read service's view of the card
    basePath,        \* browseFiles' argument
    pc,              \* the position of the program
    mem,             \* the heap
    curDir,          \* char *curDir: the path buffer
    curDirCapacity,  \* size_t curDirCapacity
    dList,           \* DirList *dList of browseFiles: scanDir's output slot
    res,             \* Result res of browseFiles
    cursorPos,       \* s32 cursorPos
    windowPos,       \* u32 windowPos
    selected,        \* *selected, NULL until written
    lastPath,        \* *lastPath, NULL until written
    sc,              \* the frame of the scanDir call in progress
    scans,           \* scanDir calls made so far
    ub,              \* the undefined behaviour executed so far
    last             \* the last event, for the statement of properties

vars == <<disk, basePath, pc, mem, curDir, curDirCapacity, dList, res,
          cursorPos, windowPos, selected, lastPath, sc, scans, ub, last>>

browseVars == <<curDir, curDirCapacity, res, cursorPos, windowPos, selected, lastPath>>
envVars == <<disk, basePath>>

\* The frame of a scanDir call at its entry; old is what the output slot held
\* when the call was made.
ScanFrame(caller, path, filter, old) ==
    [caller |-> caller, path |-> path, filter |-> filter, old |-> old, fis |-> NULL,
     dList |-> NULL, pos |-> 0, batch |-> <<>>, i |-> 0, numEntries |-> 0,
     res |-> RES_OK]

NoFrame == ScanFrame("", "", "", NULL)
NoEvent == [ev |-> "none"]

(***************************************************************************)
(* scanDir, one action per step.                                           *)
(***************************************************************************)
\* The results fOpenDir can give for a path.
OpenResults(path) ==
    IF path \in DOMAIN disk THEN {RES_OK, RES_FR_DISK_ERR} ELSE {RES_FR_NO_PATH}

\* The memory after scanDir has dealt with the list found in its output slot.
FreeOld(m, old) == IF old # NULL THEN FreeBlock(m, old) ELSE m

\* Entry of scanDir up to fOpenDir: the old list, the FILINFO buffer, the
\* new list and the directory handle.
ScanBegin(o) ==
    /\ pc = "scan_begin"
    /\ LET m1 == FreeOld(mem, dList)
           ub1 == IF dList # NULL /\ mem[dList].fr > 0
                  THEN ub \cup {"double_free"} ELSE ub
           fis == Block("fis", DIR_READ_BLOCKS, "")
       IN  /\ ub' = ub1
           /\ CASE o = "fis_fail" ->
                    /\ mem' = m1
                    /\ sc' = [sc EXCEPT !.res = RES_OUT_OF_MEM]
                    /\ pc' = "scan_ret"
                [] o = "list_fail" ->
                    /\ mem' = Append(m1, fis)
                    /\ sc' = [sc EXCEPT !.fis = NewPtr(m1), !.res = RES_OUT_OF_MEM]
                    /\ pc' = "scan_ret"
                [] OTHER ->
                    /\ o \in OpenResults(sc.path)
                    /\ mem' = Append(Append(m1, fis), dlistNew)
                    /\ sc' = [sc EXCEPT !.fis = NewPtr(m1), !.dList = NewPtr(m1) + 1,
                                        !.res = o]
                    /\ pc' = IF o = RES_OK THEN "scan_read" ELSE "scan_finish"
    /\ UNCHANGED <<envVars, browseVars, dList, scans, last>>

\* One fReadDir call: an error, or the next batch of the directory.
ScanRead(r) ==
    /\ pc = "scan_read"
    /\ LET dir == disk[sc.path]
           to == IF sc.pos + DIR_READ_BLOCKS < Len(dir)
                 THEN sc.pos + DIR_READ_BLOCKS ELSE Len(dir)
           batch == SubSeq(dir, sc.pos + 1, to)
       IN  IF r # RES_OK
           THEN /\ sc' = [sc EXCEPT !.res = r]
                /\ pc' = "scan_finish"
           ELSE /\ sc' = [sc EXCEPT !.res = r, !.batch = batch, !.pos = to, !.i = 1]
                /\ pc' = IF batch = <<>> THEN "scan_finish" ELSE "scan_entry"
    /\ UNCHANGED <<envVars, browseVars, mem, dList, scans, ub, last>>

\* The frame and position after entry i of the batch has been dealt with.
NextEntry(f) ==
    /\ sc' = [f EXCEPT !.i = @ + 1]
    /\ pc' = IF f.i + 1 > Len(f.batch) THEN "scan_read" ELSE "scan_entry"

\* The body of the for loop for one FILINFO: the filter, the growth of a
\* full list, the allocation of the name and the new entry.
ScanEntry(growOk, nameOk) ==
    /\ pc = "scan_entry"
    /\ LET fi == sc.batch[sc.i]
           full == mem[sc.dList].d.size = mem[sc.dList].d.capacity
           m1 == IF full THEN dlistGrow(mem, sc.dList) ELSE mem
           dl == IF full THEN NewPtr(mem) ELSE sc.dList
           name == Block("name", Len(fi.fname) + 1, fi.fname)
           entry == [type |-> EntType(fi), name |-> NewPtr(m1)]
       IN  IF ~Admitted(fi, sc.filter)
           THEN /\ growOk /\ nameOk
                /\ NextEntry(sc)
                /\ mem' = mem
           ELSE IF full /\ ~growOk
           THEN /\ nameOk
                /\ mem' = dlistGrowFail(mem, sc.dList)
                /\ sc' = [sc EXCEPT !.dList = NULL, !.res = RES_OUT_OF_MEM]
                /\ pc' = "scan_bail"
           ELSE IF ~nameOk
           THEN /\ growOk
                /\ mem' = m1
                /\ sc' = [sc EXCEPT !.dList = dl, !.res = RES_OUT_OF_MEM]
                /\ pc' = "scan_bail"
           ELSE /\ growOk
                /\ mem' = [Append(m1, name) EXCEPT
                              ![dl].d.entries = Append(@, entry),
                              ![dl].d.size = sc.numEntries + 1]
                /\ NextEntry([sc EXCEPT !.dList = dl, !.numEntries = @ + 1])
    /\ UNCHANGED <<envVars, browseVars, dList, scans, ub, last>>

(***************************************************************************)
(* A call dlistFree(p) executes undefined behaviour when p is NULL, when   *)
(* the block of p has been freed, when its size field was never written,   *)
(* or when one of the blocks it frees has been freed before.  Its outcomes *)
(* are then: the program stops (crash), or the call goes on with a value   *)
(* read for the size: 0 through NULL, the stale value of a freed block,    *)
(* any count of written entries for a size never written.                  *)
(***************************************************************************)
SizeReads(m, p) ==
    IF m[p].d.size = Uninit THEN 0..Len(m[p].d.entries) ELSE {m[p].d.size}

FreeEvents(m, p, n) ==
    (IF m[p].fr > 0 THEN {"use_after_free"} ELSE {})
        \cup (IF m[p].d.size = Uninit THEN {"uninit_read"} ELSE {})
        \cup (IF \E b \in FreedBy(m, p, n) : m[b].fr > 0 THEN {"double_free"} ELSE {})

\* The undefined behaviour executed when the program stops at the first of
\* the events ev: the read of the size comes before the frees.
AtFirst(ev) == IF ev = {"double_free"} THEN ev ELSE ev \ {"double_free"}

FreeOutcomes(m, p) ==
    IF p = NULL
    THEN {[crash |-> c, mem |-> m, ub |-> {"null_deref"}] : c \in BOOLEAN}
    ELSE LET went == {[crash |-> FALSE, mem |-> dlistFree(m, p, n),
                       ub |-> FreeEvents(m, p, n)] : n \in SizeReads(m, p)}
         IN  went \cup {[crash |-> TRUE, mem |-> m, ub |-> AtFirst(o.ub)] :
                            o \in {x \in went : x.ub # {}}}

\* The end of scanDir without the store to the output slot.
ScanFinish_SlotNotWritten ==
    /\ pc = "scan_finish"
    /\ LET l == mem[sc.dList].d
       IN  mem' = [FreeBlock(mem, sc.fis) EXCEPT
                      ![sc.dList].d.entries = qsort(mem, l.entries, l.size)]
    /\ pc' = "scan_ret"
    /\ UNCHANGED <<envVars, browseVars, dList, sc, scans, ub, last>>

\* After the loop of scanDir: the FILINFO buffer is freed, the list sorted
\* and stored in the output slot, whatever res is.
ScanFinish ==
    /\ pc = "scan_finish"
    /\ LET l == mem[sc.dList].d
       IN  mem' = [FreeBlock(mem, sc.fis) EXCEPT
                      ![sc.dList].d.entries = qsort(mem, l.entries, l.size)]
    /\ dList' = sc.dList
    /\ pc' = "scan_ret"
    /\ UNCHANGED <<envVars, browseVars, sc, scans, ub, last>>

\* The bail label of scanDir: the FILINFO buffer and the list are freed; the
\* output slot is left as it is.
ScanBail ==
    /\ pc = "scan_bail"
    /\ \E o \in FreeOutcomes(FreeBlock(mem, sc.fis), sc.dList) :
          /\ mem' = o.mem
          /\ ub' = ub \cup o.ub
          /\ pc' = IF o.crash THEN "crashed" ELSE "scan_ret"
    /\ UNCHANGED <<envVars, browseVars, dList, sc, scans, last>>

(***************************************************************************)
(* browseFiles.                                                            *)
(***************************************************************************)
\* Entry of browseFiles up to the call of the first scanDir.
Start(ok) ==
    /\ pc = "start"
    /\ IF ok
       THEN /\ mem' = Append(mem, Block("path", Len(basePath) + 1, basePath))
            /\ curDir' = NewPtr(mem)
            /\ curDirCapacity' = Len(basePath) + 1
            /\ sc' = ScanFrame("browse", basePath, GbaFilter, NULL)
            /\ scans' = scans + 1
            /\ pc' = "scan_begin"
            /\ res' = res
       ELSE /\ res' = RES_OUT_OF_MEM
            /\ pc' = "done"
            /\ UNCHANGED <<mem, curDir, curDirCapacity, sc, scans>>
    /\ UNCHANGED <<envVars, dList, cursorPos, windowPos, selected, lastPath, ub, last>>

\* The return of scanDir to browseFiles: a failed scan leaves the loop, a
\* successful one resets the cursor and the window and draws the list.
AfterScan ==
    /\ pc = "scan_ret"
    /\ sc.caller = "browse"
    /\ res' = sc.res
    /\ IF sc.res # RES_OK
       THEN pc' = "end" /\ UNCHANGED <<cursorPos, windowPos>>
       ELSE pc' = "poll" /\ cursorPos' = 0 /\ windowPos' = 0
    /\ sc' = NoFrame
    /\ UNCHANGED <<envVars, mem, curDir, curDirCapacity, dList, selected, lastPath,
                   scans, ub, last>>

\* The power button seen only after the keys of the tick are applied.
PollPower_KeysApplied ==
    /\ pc = "poll"
    /\ pc' = "end"
    /\ last' = [ev |-> "power", cursorPos |-> cursorPos, windowPos |-> windowPos,
                path |-> mem[curDir].d, scans |-> scans]
    /\ LET nav == NavStep(cursorPos, windowPos, mem[dList].d.size, {KEY_DDOWN})
       IN  cursorPos' = nav.cursorPos /\ windowPos' = nav.windowPos
    /\ UNCHANGED <<envVars, mem, curDir, curDirCapacity, dList, res, selected,
                   lastPath, sc, scans, ub>>

\* The power button is seen by the poll.
PollPower ==
    /\ pc = "poll"
    /\ pc' = "end"
    /\ last' = [ev |-> "power", cursorPos |-> cursorPos, windowPos |-> windowPos,
                path |-> mem[curDir].d, scans |-> scans]
    /\ UNCHANGED <<envVars, browseVars, mem, dList, sc, scans, ub>>

\* The memory after pathAppend has written str into the buffer at p.
WritePath(m, p, cap, str, dst) ==
    IF NeedsRealloc(m[p].d, cap, dst)
    THEN [m EXCEPT ![p].d = str, ![p].sz = newLen(m[p].d, dst)]
    ELSE [m EXCEPT ![p].d = str]

\* *srcSize after pathAppend.
NewCapacity(src, cap, dst) ==
    IF NeedsRealloc(src, cap, dst) THEN newLen(src, dst) ELSE cap

\* What one poll with keys kDown sees: the list size, the cursor and window
\* after the navigation keys, the entry under the cursor and the path.
PollView(kDown) ==
    LET num == mem[dList].d.size
        nav == NavStep(cursorPos, windowPos, num, kDown)
        confirm == KEY_A \in kDown /\ num # 0
        entry == mem[dList].d.entries[nav.cursorPos + 1]
    IN  [num |-> num, nav |-> nav, confirm |-> confirm,
         isFile |-> confirm /\ entry.type = ENTRY_FILE,
         name |-> IF confirm THEN mem[entry.name].d ELSE "",
         path |-> mem[curDir].d]

\* A poll with neither Confirm nor Back: the cursor and the window move.
PollNav(kDown) ==
    /\ pc = "poll"
    /\ kDown # {} /\ kDown \cap {KEY_A, KEY_B} = {}
    /\ LET v == PollView(kDown)
       IN  /\ cursorPos' = v.nav.cursorPos
           /\ windowPos' = v.nav.windowPos
    /\ last' = [ev |-> "nav"]
    /\ UNCHANGED <<envVars, pc, mem, curDir, curDirCapacity, dList, res, selected,
                   lastPath, sc, scans, ub>>

\* A poll with Confirm on a File entry: the current path is copied, the name
\* appended, both handed to the caller and the loop left.
PollSelect(kDown, o) ==
    /\ pc = "poll"
    /\ KEY_A \in kDown
    /\ LET v == PollView(kDown)
           lastPathBuf == Block("last", Len(v.path) + 1, v.path)
           m1 == Append(mem, lastPathBuf)
       IN  /\ v.isFile
           /\ cursorPos' = v.nav.cursorPos
           /\ windowPos' = v.nav.windowPos
           /\ CASE o = "last_fail" ->
                    /\ res' = RES_OUT_OF_MEM
                    /\ last' = [ev |-> "select_fail"]
                    /\ UNCHANGED <<mem, curDir, curDirCapacity, selected, lastPath>>
                [] o = "append_fail" ->
                    /\ NeedsRealloc(v.path, curDirCapacity, v.name)
                    /\ mem' = FreeBlock(FreeBlock(m1, curDir), NewPtr(mem))
                    /\ curDir' = NULL
                    /\ res' = RES_OUT_OF_MEM
                    /\ last' = [ev |-> "select_fail"]
                    /\ UNCHANGED <<curDirCapacity, selected, lastPath>>
                [] OTHER ->
                    /\ o = "ok"
                    /\ mem' = WritePath(m1, curDir, curDirCapacity,
                                        pathAppend(v.path, v.name), v.name)
                    /\ curDirCapacity' = NewCapacity(v.path, curDirCapacity, v.name)
                    /\ selected' = curDir
                    /\ lastPath' = NewPtr(mem)
                    /\ curDir' = NULL
                    /\ res' = res
                    /\ last' = [ev |-> "select", path |-> v.path, name |-> v.name]
    /\ pc' = "end"
    /\ UNCHANGED <<envVars, dList, sc, scans, ub>>

\* A poll with Confirm on a Directory entry, with Back, or with Confirm on
\* an empty list: the path is changed and scanDir called on it.
PollRescan(kDown, o) ==
    /\ pc = "poll"
    /\ kDown \cap {KEY_A, KEY_B} # {}
    /\ scans < MaxScans
    /\ LET v == PollView(kDown)
           appended == IF v.confirm THEN pathAppend(v.path, v.name) ELSE v.path
           m1 == IF v.confirm
                 THEN WritePath(mem, curDir, curDirCapacity, appended, v.name)
                 ELSE mem
           back == KEY_B \in kDown
           now == IF back THEN truncateToParent(appended) ELSE appended
       IN  /\ ~v.isFile
           /\ cursorPos' = v.nav.cursorPos
           /\ windowPos' = v.nav.windowPos
           /\ last' = [ev |-> "rescan", keys |-> kDown \cap {KEY_A, KEY_B},
                       confirm |-> v.confirm, path |-> v.path, name |-> v.name,
                       num |-> v.num, scans |-> scans]
           /\ CASE o = "append_fail" ->
                    /\ v.confirm
                    /\ NeedsRealloc(v.path, curDirCapacity, v.name)
                    /\ mem' = FreeBlock(mem, curDir)
                    /\ curDir' = NULL
                    /\ res' = RES_OUT_OF_MEM
                    /\ pc' = "end"
                    /\ UNCHANGED <<curDirCapacity, sc, scans, ub>>
                [] o = "ok" /\ back /\ ~TruncateDefined(appended) ->
                    /\ mem' = m1
                    /\ ub' = ub \cup {"out_of_bounds"}
                    /\ pc' = "crashed"
                    /\ UNCHANGED <<curDir, curDirCapacity, res, sc, scans>>
                [] OTHER ->
                    /\ o = "ok"
                    /\ mem' = [m1 EXCEPT ![curDir].d = now]
                    /\ curDirCapacity' =
                          IF v.confirm
                          THEN NewCapacity(v.path, curDirCapacity, v.name)
                          ELSE curDirCapacity
                    /\ sc' = ScanFrame("browse", now, GbaFilter, dList)
                    /\ scans' = scans + 1
                    /\ pc' = "scan_begin"
                    /\ UNCHANGED <<curDir, res, ub>>
    /\ UNCHANGED <<envVars, dList, selected, lastPath>>

\* The end label of browseFiles: the list and the path buffer are freed
\* unless their pointers are NULL, and res is returned.
End ==
    /\ pc = "end"
    /\ \E o \in (IF dList # NULL THEN FreeOutcomes(mem, dList)
                 ELSE {[crash |-> FALSE, mem |-> mem, ub |-> {}]}) :
          /\ ub' = ub \cup o.ub
          /\ IF o.crash
             THEN mem' = o.mem /\ pc' = "crashed"
             ELSE mem' = FreeBlock(o.mem, curDir) /\ pc' = "done"
    /\ UNCHANGED <<envVars, browseVars, dList, sc, scans, last>>

(***************************************************************************)
(* A browseFiles session.                                                  *)
(***************************************************************************)
Outcomes == {"ok", "fis_fail", "list_fail", "last_fail", "append_fail"}

Init ==
    /\ disk = SessionDisk
    /\ basePath \in BasePaths
    /\ pc = "start"
    /\ mem = <<>>
    /\ curDir = NULL
    /\ curDirCapacity = 0
    /\ dList = NULL
    /\ res = RES_OK
    /\ cursorPos = 0
    /\ windowPos = 0
    /\ selected = NULL
    /\ lastPath = NULL
    /\ sc = NoFrame
    /\ scans = 0
    /\ ub = {}
    /\ last = NoEvent

ScanNext ==
    \/ \E o \in {"fis_fail", "list_fail", RES_OK, RES_FR_DISK_ERR, RES_FR_NO_PATH} :
          ScanBegin(o)
    \/ \E r \in {RES_OK, RES_FR_DISK_ERR} : ScanRead(r)
    \/ \E growOk, nameOk \in BOOLEAN : ScanEntry(growOk, nameOk)
    \/ ScanFinish
    \/ ScanBail

Next ==
    \/ \E ok \in BOOLEAN : Start(ok)
    \/ ScanNext
    \/ AfterScan
    \/ PollPower
    \/ \E kDown \in SUBSET NavKeys : PollNav(kDown)
    \/ \E kDown \in SUBSET Keys, o \in Outcomes : PollSelect(kDown, o)
    \/ \E kDown \in SUBSET Keys, o \in Outcomes : PollRescan(kDown, o)
    \/ End

Spec == Init /\ [][Next]_vars

(***************************************************************************)
(* scanDir alone: one call on the volume root of a card that holds an      *)
(* enumerated directory, with an enumerated filter, and with an output     *)
(* slot that is NULL or holds the list of an earlier scan.                 *)
(***************************************************************************)
ScanNames == {"a.gba", "Z.gba", ".gba", "a", "gba"}
ScanInfos ==
    {FileInfo(n, FALSE) : n \in ScanNames} \cup {FileInfo(n, TRUE) : n \in {"a", ".d"}}
ScanFilters == {GbaFilter, "a", ""}

\* The directories of at most n entries with distinct names.
Listings(n) ==
    {l \in UNION {[1..k -> ScanInfos] : k \in 0..n} :
        \A i, j \in DOMAIN l : i # j => l[i].fname # l[j].fname}

\* A directory that overflows the initial capacity of a list.
GrowCount == DLIST_GROW_SIZE + 1
GrowListing == BigFiles(GrowCount)

\* The heap that holds the sorted list of an earlier scan, at pointer 1.
EarlierMem ==
    <<Block("list", DLIST_GROW_SIZE,
            [capacity |-> DLIST_GROW_SIZE, size |-> 2,
             entries |-> <<[type |-> ENTRY_DIRECTORY, name |-> 2],
                           [type |-> ENTRY_FILE, name |-> 3]>>]),
      Block("name", 2, "d"),
      Block("name", 6, "a.gba")>>

ScanInit ==
    /\ \E l \in Listings(MaxDirLen) \cup {GrowListing} :
          disk = [p \in {VolumeRoot} |-> l]
    /\ basePath = VolumeRoot
    /\ pc = "scan_begin"
    /\ \/ mem = <<>> /\ dList = NULL
       \/ mem = EarlierMem /\ dList = 1
    /\ \E path \in {VolumeRoot, "sdmc:/gone"}, f \in ScanFilters :
          sc = ScanFrame("harness", path, f, dList)
    /\ curDir = NULL
    /\ curDirCapacity = 0
    /\ res = RES_OK
    /\ cursorPos = 0
    /\ windowPos = 0
    /\ selected = NULL
    /\ lastPath = NULL
    /\ scans = 1
    /\ ub = {}
    /\ last = NoEvent

SpecScan == ScanInit /\ [][ScanNext]_vars

(***************************************************************************)
(* The cursor and window update alone: polls with navigation keys on a     *)
(* list of a given size, from the cursor and window of a fresh list.  The  *)
(* event records the size, the keys and the cursor and window before.      *)
(***************************************************************************)
NavSizes == (0..MaxNum) \cup {2 * SCREEN_ROWS + 1, 100}

NavInit ==
    /\ disk = SessionDisk
    /\ basePath = VolumeRoot
    /\ pc = "nav"
    /\ mem = <<>>
    /\ curDir = NULL
    /\ curDirCapacity = 0
    /\ dList = NULL
    /\ res = RES_OK
    /\ cursorPos = 0
    /\ windowPos = 0
    /\ selected = NULL
    /\ lastPath = NULL
    /\ sc = NoFrame
    /\ scans = 0
    /\ ub = {}
    /\ \E n \in NavSizes :
          last = [ev |-> "list", num |-> n, keys |-> {}, cursorPos |-> 0,
                  windowPos |-> 0, redraws |-> 0]

NavPoll(kDown) ==
    /\ pc = "nav"
    /\ kDown # {}
    /\ LET nav == NavStep(cursorPos, windowPos, last.num, kDown)
       IN  /\ cursorPos' = nav.cursorPos
           /\ windowPos' = nav.windowPos
           /\ last' = [ev |-> "poll", num |-> last.num, keys |-> kDown,
                       cursorPos |-> cursorPos, windowPos |-> windowPos,
                       redraws |-> nav.redraws]
    /\ UNCHANGED <<envVars, pc, mem, curDir, curDirCapacity, dList, res, selected,
                   lastPath, sc, scans, ub>>

NavNext == \E kDown \in SUBSET NavKeys : NavPoll(kDown)

SpecNav == NavInit /\ [][NavNext]_vars

(***************************************************************************)
(* The path buffer alone: appends and truncations on a buffer that holds   *)
(* a path of the card, allocated as browseFiles allocates it.  The event   *)
(* records the operation, the path before it and, for a truncation that    *)
(* follows an append, the path before that append.                         *)
(***************************************************************************)
\* Names of directories, as a filesystem gives them.
DirNames == {"games", "roms", "a"}

\* The volume root and the paths of at most n names below it, with one
\* separator between names and none at the end.
RECURSIVE ValidPaths(_)
ValidPaths(n) ==
    IF n = 0 THEN {VolumeRoot}
    ELSE ValidPaths(n - 1)
            \cup {IF p = VolumeRoot THEN p \o c ELSE p \o "/" \o c :
                     p \in ValidPaths(n - 1), c \in DirNames}

\* Components without a separator: names, the empty component, and one
\* that ends like a volume.
Components == DirNames \cup {"", "x:"}

PathInit ==
    /\ disk = SessionDisk
    /\ basePath \in ValidPaths(MaxDepth)
    /\ pc = "path"
    /\ mem = <<Block("path", Len(basePath) + 1, basePath)>>
    /\ curDir = 1
    /\ curDirCapacity = Len(basePath) + 1
    /\ dList = NULL
    /\ res = RES_OK
    /\ cursorPos = 0
    /\ windowPos = 0
    /\ selected = NULL
    /\ lastPath = NULL
    /\ sc = NoFrame
    /\ scans = 0
    /\ ub = {}
    /\ last = NoEvent

\* The separators of a string.
Separators(s) == Cardinality({i \in 1..Len(s) : CharAt(s, i) = "/"})

\* curDir = pathAppend(curDir, &curDirCapacity, c), as browseFiles calls it.
PathAppend(c, ok) ==
    /\ pc = "path"
    /\ Separators(mem[curDir].d) <= MaxDepth
    /\ LET p == mem[curDir].d
       IN  IF ok
           THEN /\ mem' = WritePath(mem, curDir, curDirCapacity, pathAppend(p, c), c)
                /\ curDirCapacity' = NewCapacity(p, curDirCapacity, c)
                /\ last' = [ev |-> "append", path |-> p, name |-> c]
                /\ UNCHANGED <<curDir, res, pc>>
           ELSE /\ NeedsRealloc(p, curDirCapacity, c)
                /\ mem' = FreeBlock(mem, curDir)
                /\ curDir' = NULL
                /\ res' = RES_OUT_OF_MEM
                /\ pc' = "done"
                /\ last' = [ev |-> "append_fail", path |-> p, name |-> c]
                /\ UNCHANGED curDirCapacity
    /\ UNCHANGED <<envVars, dList, cursorPos, windowPos, selected, lastPath, sc,
                   scans, ub>>

\* The truncation of the Back key, as browseFiles applies it to curDir.
PathTruncate ==
    /\ pc = "path"
    /\ LET p == mem[curDir].d
       IN  IF TruncateDefined(p)
           THEN /\ mem' = [mem EXCEPT ![curDir].d = truncateToParent(p)]
                /\ last' = [ev |-> "truncate", path |-> p,
                            appended |-> last.ev = "append",
                            before |-> IF last.ev = "append" THEN last.path ELSE "",
                            name |-> IF last.ev = "append" THEN last.name ELSE ""]
                /\ UNCHANGED <<pc, ub>>
           ELSE /\ ub' = ub \cup {"out_of_bounds"}
                /\ pc' = "crashed"
                /\ UNCHANGED <<mem, last>>
    /\ UNCHANGED <<envVars, curDir, curDirCapacity, dList, res, cursorPos, windowPos,
                   selected, lastPath, sc, scans>>

PathNext ==
    \/ \E c \in Components, ok \in BOOLEAN : PathAppend(c, ok)
    \/ PathTruncate

SpecPath == PathInit /\ [][PathNext]_vars

(***************************************************************************)
(* Properties.                                                             *)
(***************************************************************************)
Blocks(kinds) == {b \in DOMAIN mem : mem[b].k \in kinds}

\* C1: however a browseFiles session ends, every list block and every entry
\* name allocated during it has been freed exactly once, with no double free
\* and no use of freed memory on the way, and the path buffer has been freed
\* exactly once unless the session ended with a selection, in which case it
\* is the selected path and is not freed.
C1_ResourceRelease ==
    /\ ub \cap {"double_free", "use_after_free", "null_deref", "uninit_read"} = {}
    /\ pc # "crashed"
    /\ pc = "done" =>
          /\ \A b \in Blocks({"list", "name"}) : mem[b].fr = 1
          /\ \A b \in Blocks({"path"}) :
                mem[b].fr = (IF selected = b THEN 0 ELSE 1)

\* C2: when a call of scanDir whose output slot held a list returns, every
\* name of that list and its backing block have been freed.
C2_PreviousListDestroyed ==
    (pc = "scan_ret" /\ sc.old # NULL) =>
        /\ mem[sc.old].fr >= 1
        /\ \A i \in 1..mem[sc.old].d.size :
              mem[mem[sc.old].d.entries[i].name].fr >= 1

\* The last character of a string is a separator.
EndsWithSeparator(s) == Len(s) > 0 /\ CharAt(s, Len(s)) = "/"

\* p and n joined by exactly one separator.
Joined(p, n) == IF EndsWithSeparator(p) THEN p \o n ELSE p \o "/" \o n

\* C3: a Confirm on a File entry named n while the current path is p (the
\* two allocations it makes succeeding) ends the session with RES_OK,
\* *selected equal to p and n joined by exactly one separator and *lastPath
\* equal to p as it was before the append; the selected path is the path
\* buffer, handed over and never freed by the browser.
C3_SelectionResult ==
    last.ev = "select" =>
        /\ pc \in {"end", "done"}
        /\ res = RES_OK
        /\ selected # NULL /\ lastPath # NULL /\ curDir = NULL
        /\ mem[selected].d = Joined(last.path, last.name)
        /\ mem[lastPath].d = last.path
        /\ mem[selected].k = "path" /\ mem[selected].fr = 0
        /\ mem[lastPath].fr = 0

C3_Witness ==
    /\ pc = "done" /\ last.ev = "select"
    /\ last.path = "sdmc:/roms" /\ last.name = "game.gba"
    /\ mem[selected].d = "sdmc:/roms/game.gba"
    /\ mem[lastPath].d = "sdmc:/roms"

\* a is not above b in byte-wise lexicographic order.
RECURSIVE ByteLeq(_, _)
ByteLeq(a, b) ==
    \/ a = ""
    \/ /\ b # ""
       /\ \/ Byte(Head(a)) < Byte(Head(b))
          \/ Head(a) = Head(b) /\ ByteLeq(Tail(a), Tail(b))

\* The list scanDir has just stored in the output slot, NULL if it stored none.
Stored == IF pc = "scan_ret" /\ sc.dList # NULL /\ dList = sc.dList THEN dList ELSE NULL

NameOf(e) == mem[e.name].d

\* C4: in every list scanDir stores in the output slot all Directory entries
\* precede all File entries, and within each kind the names of consecutive
\* entries are non-decreasing in byte-wise order.
C4_SortInvariant ==
    Stored # NULL =>
        LET l == mem[Stored].d
        IN  \A i \in 1..(l.size - 1) :
               /\ l.entries[i].type = ENTRY_FILE => l.entries[i + 1].type = ENTRY_FILE
               /\ l.entries[i].type = l.entries[i + 1].type =>
                     ByteLeq(NameOf(l.entries[i]), NameOf(l.entries[i + 1]))

\* A stored list of three entries whose directory came last on the card and
\* whose files came in descending order.
C4_Witness ==
    /\ Stored # NULL /\ sc.res = RES_OK
    /\ disk[sc.path] = <<FileInfo("a.gba", FALSE), FileInfo("Z.gba", FALSE),
                         FileInfo("a", TRUE)>>
    /\ mem[Stored].d.size = 3
    /\ NameOf(mem[Stored].d.entries[1]) = "a"
    /\ NameOf(mem[Stored].d.entries[2]) = "Z.gba"

\* The admission rule as the specification states it.
Admits(fi, f) ==
    \/ fi.isDir
    \/ /\ Len(fi.fname) > Len(f)
       /\ SubSeq(fi.fname, Len(fi.fname) - Len(f) + 1, Len(fi.fname)) = f
       /\ SubSeq(fi.fname, 1, 1) # "."

\* C5: a scan with filter f that succeeds stores a list that holds exactly
\* the admitted entries of the directory, each once: every Directory entry,
\* and a File entry if and only if its name is longer than f, ends with f
\* and does not start with '.'.
C5_FilterCorrectness ==
    (Stored # NULL /\ sc.res = RES_OK) =>
        LET l == mem[Stored].d
            dir == disk[sc.path]
            admitted == {i \in DOMAIN dir : Admits(dir[i], sc.filter)}
            listed == {FileInfo(NameOf(l.entries[k]), l.entries[k].type = ENTRY_DIRECTORY) :
                          k \in 1..l.size}
        IN  /\ listed = {dir[i] : i \in admitted}
            /\ l.size = Cardinality(admitted)
            /\ Len(l.entries) = l.size

\* A scan with filter "a" of a directory that holds a file named like the
\* filter, a file that ends with it and a directory.
C5_Witness ==
    /\ Stored # NULL /\ sc.res = RES_OK /\ sc.filter = "a"
    /\ disk[sc.path] = <<FileInfo("a", FALSE), FileInfo("a.gba", FALSE),
                         FileInfo(".d", TRUE)>>
    /\ mem[Stored].d.size = 2

\* The size of the current list of browseFiles.
ListSize == mem[dList].d.size

\* C6: at every poll of a session whose current list is not empty the
\* cursor is an index of the list, whatever keys the polls before have seen,
\* several of them together included.
C6_CursorInRange ==
    (pc = "poll" /\ ListSize > 0) => (0 <= cursorPos /\ cursorPos < ListSize)

\* A poll of a list longer than a page with the cursor on its last entry
\* and the window scrolled.
C6_Witness ==
    /\ pc = "poll" /\ ListSize > SCREEN_ROWS
    /\ cursorPos = ListSize - 1 /\ windowPos > 0
    /\ last.ev = "nav"

\* C7: after every processed input event and after every successful rescan
\* the window contains the cursor: windowPos <= cursorPos and
\* cursorPos < windowPos + SCREEN_ROWS.
C7_WindowContainsCursor ==
    pc \in {"poll", "scan_begin", "end"} =>
        (windowPos <= cursorPos /\ cursorPos < windowPos + SCREEN_ROWS)

\* A poll after an input event that scrolled the window down.
C7_Witness ==
    /\ pc = "poll" /\ last.ev = "nav"
    /\ windowPos > 0 /\ cursorPos = windowPos + SCREEN_ROWS - 1

\* C8: on a list that is not empty, Step-up alone takes the cursor from 0
\* to the last entry and from any other entry to the one before; Step-down
\* alone takes it from the last entry to 0 and from any other entry to the
\* one after.
C8_StepWrap ==
    (last.ev = "poll" /\ last.num > 0) =>
        /\ last.keys = {KEY_DUP} =>
              cursorPos = (IF last.cursorPos = 0 THEN last.num - 1
                           ELSE last.cursorPos - 1)
        /\ last.keys = {KEY_DDOWN} =>
              cursorPos = (IF last.cursorPos = last.num - 1 THEN 0
                           ELSE last.cursorPos + 1)

\* Step-up from the first of five entries.
C8_Witness ==
    /\ last.ev = "poll" /\ last.num = 5 /\ last.keys = {KEY_DUP}
    /\ last.cursorPos = 0 /\ cursorPos = 4

\* The scroll rule of one poll: the window moves only when the cursor has
\* left it, by the least amount, and the page is redrawn exactly then.
ScrollRule(pageSize) ==
    last.ev = "poll" =>
        /\ cursorPos < last.windowPos =>
              (windowPos = cursorPos /\ last.redraws = 1)
        /\ cursorPos >= last.windowPos + pageSize =>
              (windowPos = cursorPos - (pageSize - 1) /\ last.redraws = 1)
        /\ (last.windowPos <= cursorPos /\ cursorPos < last.windowPos + pageSize) =>
              (windowPos = last.windowPos /\ last.redraws = 0)

\* Step-down alone from cursor c on a list of a hundred entries with the
\* window at its start.
StepDownFrom(c) ==
    /\ last.ev = "poll" /\ last.num = 100 /\ last.keys = {KEY_DDOWN}
    /\ last.cursorPos = c /\ last.windowPos = 0

\* C9 as stated: the scroll rule, and a Step-down from cursor 22 on a list
\* of a hundred entries with the window at its start moves the window to 1.
C9_AsStated ==
    /\ ScrollRule(SCREEN_ROWS)
    /\ StepDownFrom(22) => windowPos = 1

\* C9: the scroll rule with the page of SCREEN_ROWS = 24 rows; on a list of
\* a hundred entries with the window at its start a Step-down from cursor 23
\* moves the window to 1, and a Step-down from cursor 22 leaves it at 0.
C9_ScrollRecompute ==
    /\ ScrollRule(SCREEN_ROWS)
    /\ StepDownFrom(23) => (windowPos = 1 /\ last.redraws = 1)
    /\ StepDownFrom(22) => (windowPos = 0 /\ last.redraws = 0)

C9_Witness == StepDownFrom(23) /\ cursorPos = 24 /\ windowPos = 1

\* p is the volume root, or names below it with one separator between them
\* and none at the end; a name holds no ':'.
IsValidPath(p) ==
    /\ Len(p) >= Len(VolumeRoot)
    /\ SubSeq(p, 1, Len(VolumeRoot)) = VolumeRoot
    /\ p # VolumeRoot => ~EndsWithSeparator(p)
    /\ \A i \in (Len(VolumeRoot) + 1)..Len(p) :
          /\ CharAt(p, i) # ":"
          /\ CharAt(p, i) = "/" => CharAt(p, i - 1) # "/"

\* C10: for a valid path p and a component c without a separator, append
\* puts a separator between p and c only when p does not end with one, the
\* truncation of append(p, c) is p, and the truncation of the volume root
\* is the volume root.
C10_PathRoundTrip ==
    /\ (last.ev = "append" /\ IsValidPath(last.path)) =>
          mem[curDir].d = Joined(last.path, last.name)
    /\ (last.ev = "truncate" /\ last.appended /\ IsValidPath(last.before)) =>
          mem[curDir].d = last.before
    /\ (last.ev = "truncate" /\ last.path = VolumeRoot) =>
          mem[curDir].d = VolumeRoot
    /\ (last.ev = "truncate" /\ last.path = "sdmc:/games") =>
          mem[curDir].d = VolumeRoot

\* The truncation of "sdmc:/games", the result of append("sdmc:/", "games").
C10_Witness ==
    /\ last.ev = "truncate" /\ last.appended
    /\ last.before = VolumeRoot /\ last.name = "games"
    /\ last.path = "sdmc:/games"
    /\ mem[curDir].d = "sdmc:/"

\* The current path of the session.
CurPath == mem[curDir].d

\* The last event is a Back alone with the current path at the volume root.
BackAtRoot ==
    last.ev = "rescan" /\ last.keys = {KEY_B} /\ last.path = VolumeRoot

\* C11: in a session started from the volume root or from a path below it,
\* whatever Confirm-on-Directory and Back events it has seen, the current
\* path begins with the volume root, is not shorter than it and has no
\* trailing separator unless it is the volume root; a Back at the volume
\* root leaves the path at the volume root and goes on to rescan it, so
\* that the session ends after it only if that rescan fails.
C11_PathInvariant ==
    /\ (curDir # NULL /\ pc # "crashed") =>
          /\ Len(CurPath) >= Len(VolumeRoot)
          /\ SubSeq(CurPath, 1, Len(VolumeRoot)) = VolumeRoot
          /\ CurPath # VolumeRoot => ~EndsWithSeparator(CurPath)
    /\ ub \cap {"out_of_bounds"} = {}
    /\ BackAtRoot =>
          /\ curDir # NULL /\ CurPath = VolumeRoot
          /\ last.scans < scans
          /\ pc \in {"end", "done", "crashed"} => res # RES_OK

\* A poll at the volume root reached by a Back at the volume root that
\* followed a Back from a directory below it.
C11_Witness ==
    /\ pc = "poll" /\ BackAtRoot /\ CurPath = VolumeRoot
    /\ basePath = "sdmc:/roms" /\ scans = 3

\* C12: in every state of a scan the size of the list being filled is at
\* most its capacity, the state right after a growth included; the capacity
\* starts at DLIST_GROW_SIZE and is raised by exactly DLIST_GROW_SIZE per
\* growth, and a growth is made only for an entry that finds the list full.
C12_CapacityInvariant ==
    (sc.dList # NULL /\ pc \in {"scan_read", "scan_entry", "scan_finish", "scan_bail"}) =>
        LET l == mem[sc.dList].d
        IN  /\ l.size # Uninit
            /\ ~UGt(l.size, l.capacity)
            /\ l.capacity >= DLIST_GROW_SIZE
            /\ l.capacity % DLIST_GROW_SIZE = 0
            /\ l.capacity > DLIST_GROW_SIZE =>
                  sc.numEntries >= l.capacity - DLIST_GROW_SIZE

\* The growth of the list has failed in the scan in progress: the scan has
\* entries and no list.
GrowthFailed == sc.dList = NULL /\ sc.numEntries > 0

\* The list blocks and the names allocated by the scan in progress.
ScanBlocks == {b \in Blocks({"list", "name"}) : b > sc.fis}

\* C13: when the growth of the list fails during a scan, the scan reports
\* RES_OUT_OF_MEM, and when it returns every name allocated by it and the
\* block of the list that was being grown have been freed exactly once,
\* with no access to a freed or null list on the way.
C13_GrowthFailure ==
    GrowthFailed =>
        /\ sc.res = RES_OUT_OF_MEM
        /\ pc # "crashed"
        /\ ub \cap {"null_deref", "use_after_free", "double_free"} = {}
        /\ pc = "scan_ret" => \A b \in ScanBlocks : mem[b].fr = 1

\* The error codes of the directory-read service.
ReadErrors == {RES_FR_DISK_ERR, RES_FR_NO_PATH}

\* scanDir is returning the error of a failed fOpenDir or fReadDir.
ReadFailed == pc = "scan_ret" /\ sc.res \in ReadErrors

\* The names owned by the list at p.
NamesOf(p) == {mem[p].d.entries[i].name : i \in 1..mem[p].d.size}

\* C14 as stated: when scanDir returns the error of the directory-read
\* service, the list of the failed scan and the entries read so far have
\* been released.
C14_AsStated ==
    ReadFailed => \A b \in ScanBlocks : mem[b].fr = 1

\* C14: when the directory-read service fails, scanDir returns its error
\* code, having freed the FILINFO buffer and stored the list of the entries
\* read so far in the output slot with nothing of it released; browseFiles
\* ends the session with that code and no selection, and its end label
\* releases the list and each of its entries exactly once.
C14_ReadFailure ==
    /\ ReadFailed =>
          /\ dList = sc.dList
          /\ mem[sc.fis].fr = 1
          /\ mem[dList].d.size = sc.numEntries
          /\ \A b \in ScanBlocks : mem[b].fr = 0
          /\ ScanBlocks = NamesOf(dList) \cup {dList}
    /\ (pc \in {"end", "done", "crashed"} /\ res \in ReadErrors) =>
          /\ pc # "crashed" /\ selected = NULL /\ lastPath = NULL
          /\ \A b \in NamesOf(dList) \cup {dList} :
                mem[b].fr = (IF pc = "done" THEN 1 ELSE 0)

\* A session ended by a read error after a batch of the directory had been
\* listed.
C14_Witness ==
    /\ pc = "done" /\ res = RES_FR_DISK_ERR
    /\ mem[dList].d.size > 0 /\ mem[dList].fr = 1
    /\ scans > 1

\* C15: res is RES_OK at every poll, and when the power button is seen at
\* a poll the session goes to its end with no key of that tick applied: the
\* cursor, the window and the path are as they were, no scan is made,
\* *selected and *lastPath are not written and RES_OK is returned.
C15_PowerOff ==
    /\ pc = "poll" => res = RES_OK
    /\ last.ev = "power" =>
          /\ pc \in {"end", "done"}
          /\ res = RES_OK
          /\ selected = NULL /\ lastPath = NULL
          /\ cursorPos = last.cursorPos /\ windowPos = last.windowPos
          /\ curDir # NULL /\ CurPath = last.path
          /\ scans = last.scans

\* A session ended by the power button after a rescan, with the cursor
\* moved off the first entry.
C15_Witness ==
    /\ last.ev = "power" /\ pc = "done"
    /\ scans > 1 /\ cursorPos > 0

\* The last event is a Confirm alone on an empty list that called scanDir.
ConfirmOnEmpty ==
    last.ev = "rescan" /\ last.num = 0 /\ last.keys = {KEY_A}

\* C16: while the current list is empty the cursor and the window stay
\* (0,0) whatever keys are polled, and a Confirm alone makes no rescan and
\* so cannot end the session: scanDir is called from an empty list only
\* when Back is among the keys.
C16_EmptyList ==
    /\ (pc = "poll" /\ ListSize = 0) => (cursorPos = 0 /\ windowPos = 0)
    /\ ~ConfirmOnEmpty

\* The last event is a Confirm on a Directory entry or a Back (or both in
\* one tick) whose path change succeeded, so that scanDir was called.
Rescanned ==
    /\ last.ev = "rescan" /\ (last.confirm \/ KEY_B \in last.keys)
    /\ scans > last.scans

\* The path such an event leaves: the name appended for a Confirm, the
\* result truncated to its parent for a Back.
PathAfter ==
    LET appended == IF last.confirm THEN Joined(last.path, last.name) ELSE last.path
    IN  IF KEY_B \in last.keys THEN truncateToParent(appended) ELSE appended

\* The entries scanDir admits from the directory at path p.
AdmittedAt(p) == {i \in DOMAIN disk[p] : Admits(disk[p][i], GbaFilter)}

\* C17: a Confirm on a Directory entry appends its name to the current
\* path and a Back truncates the path to its parent, and scanDir is called
\* on the new path; when that scan succeeds the next poll finds cursor and
\* window at (0,0) and the list of the new path as the current list; when
\* it fails the session ends and returns the code of the scan with
\* *selected and *lastPath not written.
C17_ConfirmDirectoryAndBack ==
    Rescanned =>
        /\ curDir # NULL /\ CurPath = PathAfter
        /\ pc # "crashed"
        /\ ub \cap {"double_free", "use_after_free", "null_deref"} = {}
        /\ pc = "poll" =>
              /\ cursorPos = 0 /\ windowPos = 0 /\ res = RES_OK
              /\ mem[dList].fr = 0
              /\ ListSize = Cardinality(AdmittedAt(CurPath))
              /\ {NameOf(mem[dList].d.entries[k]) : k \in 1..ListSize}
                    = {disk[CurPath][i].fname : i \in AdmittedAt(CurPath)}
        /\ pc \in {"end", "done"} =>
              (res # RES_OK /\ selected = NULL /\ lastPath = NULL)

\* The last event is a poll with the key k alone on a list that is not
\* empty.
PolledAlone(k) == last.ev = "poll" /\ last.num > 0 /\ last.keys = {k}

\* C18: Page-forward alone on a list that is not empty takes the cursor c
\* to c + SCREEN_ROWS when that is below the size of the list and to the
\* last entry otherwise.
C18_PageForward ==
    PolledAlone(KEY_DRIGHT) =>
        cursorPos = (IF last.cursorPos + SCREEN_ROWS < last.num
                     THEN last.cursorPos + SCREEN_ROWS
                     ELSE last.num - 1)

\* C19: Page-backward alone on a list that is not empty takes the cursor c
\* to c - SCREEN_ROWS when that is at least 0 and to the last entry
\* otherwise, the value being floored at -1 and wrapped.
C19_PageBackward ==
    PolledAlone(KEY_DLEFT) =>
        cursorPos = (IF last.cursorPos - SCREEN_ROWS >= 0
                     THEN last.cursorPos - SCREEN_ROWS
                     ELSE last.num - 1)

\* The path buffer: the one browseFiles holds, or the one it handed over
\* as the selected path.
PathBuf == IF curDir # NULL THEN curDir ELSE selected

\* The string of the path buffer with its terminator fits the tracked
\* capacity, and the tracked capacity is within the allocated block.
PathFits ==
    (PathBuf # NULL /\ mem[PathBuf].fr = 0) =>
        /\ Len(mem[PathBuf].d) + 1 <= curDirCapacity
        /\ curDirCapacity <= mem[PathBuf].sz

\* C20: at every point of a session the current path with its terminator
\* fits the tracked capacity, the tracked capacity is at most the size of
\* the allocated buffer, no append or truncation accesses memory outside
\* the buffer, and the tracked capacity never decreases.
C20_PathCapacity ==
    /\ [](PathFits /\ "out_of_bounds" \notin ub)
    /\ [][curDirCapacity' >= curDirCapacity]_vars

\* A poll with the path back at a shorter one after an append that grew
\* the buffer.
C20_Witness ==
    /\ pc = "poll" /\ scans = 3
    /\ curDirCapacity > Len(basePath) + 1
    /\ curDirCapacity > Len(CurPath) + 1
    /\ mem[curDir].sz = curDirCapacity

====
